---- MODULE Spec2Model ----
(***************************************************************************)
(* Model of the two command-line tools of the repository:                  *)
(*   scripts/install_prebuilt_flash_attn.py  (the Installer)               *)
(*   scripts/diagnose_flash_attn.py          (the Inspector)               *)
(*                                                                         *)
(* Python strings that the code parses (versions, release tags, command    *)
(* output, exception messages) are sequences of one-character strings;     *)
(* Str turns such a sequence into a TLA+ string once it is only formatted. *)
(***************************************************************************)
EXTENDS Integers, Sequences, FiniteSets, TLC

(***************************************************************************)
(* Bounds of the model.                                                    *)
(***************************************************************************)
MaxTorchMinor == 5      \* torch versions 2.4.x .. 2.MaxTorchMinor.x
MaxPyMinor == 11        \* interpreters 3.10 .. 3.MaxPyMinor
MaxReturnCode == 2      \* installer subprocess return codes 0..MaxReturnCode
MaxOutLen == 3          \* length of a probe command's captured output

(***************************************************************************)
(* String helpers (Python built-ins the scripts call).                     *)
(***************************************************************************)
RECURSIVE Str(_)
Str(s) == IF s = <<>> THEN "" ELSE Head(s) \o Str(Tail(s))

DIGITS == <<"0", "1", "2", "3", "4", "5", "6", "7", "8", "9">>

IsDigit(c) == \E i \in 1..Len(DIGITS) : DIGITS[i] = c

\* f"{n}" for a non-negative integer
RECURSIVE Dec(_)
Dec(n) == IF n < 10 THEN <<DIGITS[n + 1]>>
          ELSE Dec(n \div 10) \o <<DIGITS[(n % 10) + 1]>>

\* s.startswith(p)
StartsWith(s, p) == Len(s) >= Len(p) /\ SubSeq(s, 1, Len(p)) = p

\* sub in s
Contains(s, sub) ==
    \E i \in 1..(Len(s) + 1) :
        i + Len(sub) - 1 <= Len(s) /\ SubSeq(s, i, i + Len(sub) - 1) = sub

\* s.lstrip(c): every leading occurrence of c is removed
RECURSIVE LStrip(_, _)
LStrip(s, c) == IF s # <<>> /\ Head(s) = c THEN LStrip(Tail(s), c) ELSE s

UPPER == <<"A", "B", "C", "D", "E", "F", "G", "H", "I", "J", "K", "L", "M",
           "N", "O", "P", "Q", "R", "S", "T", "U", "V", "W", "X", "Y", "Z">>
LOWER == <<"a", "b", "c", "d", "e", "f", "g", "h", "i", "j", "k", "l", "m",
           "n", "o", "p", "q", "r", "s", "t", "u", "v", "w", "x", "y", "z">>

LowerChar(c) == IF \E i \in 1..Len(UPPER) : UPPER[i] = c
                THEN LOWER[CHOOSE i \in 1..Len(UPPER) : UPPER[i] = c]
                ELSE c

\* s.lower()
Lower(s) == [i \in 1..Len(s) |-> LowerChar(s[i])]

\* the longest prefix of s made of digits (the regex \d+ anchored at the start)
RECURSIVE LeadingDigits(_)
LeadingDigits(s) == IF s # <<>> /\ IsDigit(Head(s))
                    THEN <<Head(s)>> \o LeadingDigits(Tail(s))
                    ELSE <<>>

(***************************************************************************)
(* Installer: constants.                                                   *)
(***************************************************************************)
GITHUB_REPO == "Dao-AILab/flash-attention"
DEFAULT_RELEASE_TAG == <<"v", "2", ".", "8", ".", "3">>

\* args.release_tag when --release-tag is absent (argparse default None);
\* no string is equal to it, a string being a sequence of single characters
None == <<"None">>

(***************************************************************************)
(* Installer: pure functions.                                              *)
(***************************************************************************)
\* re.match(r"^(\d+)\.(\d+)", torch_version); <<>> stands for "no match"
_parse_torch_major_minor(torch_version) ==
    LET g1 == LeadingDigits(torch_version)
        rest1 == SubSeq(torch_version, Len(g1) + 1, Len(torch_version))
        g2 == IF rest1 # <<>> /\ Head(rest1) = "."
              THEN LeadingDigits(Tail(rest1)) ELSE <<>>
    IN IF g1 # <<>> /\ g2 # <<>>
       THEN [ok |-> TRUE, value |-> g1 \o <<".">> \o g2]
       ELSE [ok |-> FALSE, value |-> <<>>]

\* a plausible slip: the Linux test is left out
_platform_tag_any_os(sys_platform, machine) ==
    IF Lower(machine) \in {<<"x", "8", "6", "_", "6", "4">>,
                           <<"a", "m", "d", "6", "4">>}
    THEN [ok |-> TRUE, value |-> "linux_x86_64", err |-> ""]
    ELSE IF Lower(machine) \in {<<"a", "a", "r", "c", "h", "6", "4">>,
                                <<"a", "r", "m", "6", "4">>}
    THEN [ok |-> TRUE, value |-> "linux_aarch64", err |-> ""]
    ELSE [ok |-> FALSE, value |-> "", err |-> "unsupported machine"]

_platform_tag(sys_platform, machine) ==
    IF ~StartsWith(sys_platform, <<"l", "i", "n", "u", "x">>)
    THEN [ok |-> FALSE, value |-> "", err |-> "linux only"]
    ELSE IF Lower(machine) \in {<<"x", "8", "6", "_", "6", "4">>,
                                <<"a", "m", "d", "6", "4">>}
    THEN [ok |-> TRUE, value |-> "linux_x86_64", err |-> ""]
    ELSE IF Lower(machine) \in {<<"a", "a", "r", "c", "h", "6", "4">>,
                                <<"a", "r", "m", "6", "4">>}
    THEN [ok |-> TRUE, value |-> "linux_aarch64", err |-> ""]
    ELSE [ok |-> FALSE, value |-> "", err |-> "unsupported machine"]

NoRuntime ==
    [torch_version |-> "", torch_major_minor |-> "", torch_cuda |-> "",
     python_tag |-> "", cxx11abi |-> "", platform_tag |-> ""]

\* env: what the interpreter, torch and the platform module answer
_gather_runtime(env) ==
    LET mm == _parse_torch_major_minor(env.torch_version)
        plat == _platform_tag(env.sys_platform, env.machine)
    IN IF ~env.torch_importable
       THEN [ok |-> FALSE, err |-> "torch missing", rt |-> NoRuntime]
       ELSE IF ~mm.ok
       THEN [ok |-> FALSE, err |-> "unparseable torch version", rt |-> NoRuntime]
       ELSE IF env.torch_cuda = <<>>
       THEN [ok |-> FALSE, err |-> "no cuda", rt |-> NoRuntime]
       ELSE IF ~StartsWith(env.torch_cuda, <<"1", "2", ".">>)
       THEN [ok |-> FALSE, err |-> "unsupported cuda", rt |-> NoRuntime]
       ELSE IF ~plat.ok
       THEN [ok |-> FALSE, err |-> plat.err, rt |-> NoRuntime]
       ELSE [ok |-> TRUE, err |-> "",
             rt |-> [torch_version |-> Str(env.torch_version),
                     torch_major_minor |-> Str(mm.value),
                     torch_cuda |-> Str(env.torch_cuda),
                     python_tag |-> "cp" \o Str(Dec(env.py_major))
                                         \o Str(Dec(env.py_minor)),
                     cxx11abi |-> IF env.cxx11abi THEN "TRUE" ELSE "FALSE",
                     platform_tag |-> plat.value]]

\* a plausible slip: the toolkit's major.minor is put in the filename
_wheel_url_cuda_minor(release_tag, runtime) ==
    "https://github.com/" \o GITHUB_REPO \o "/releases/download/"
        \o Str(release_tag) \o "/"
        \o "flash_attn-" \o Str(LStrip(release_tag, "v")) \o "%2Bcu"
        \o runtime.torch_cuda \o "torch"
        \o runtime.torch_major_minor \o "cxx11abi" \o runtime.cxx11abi \o "-"
        \o runtime.python_tag \o "-" \o runtime.python_tag \o "-"
        \o runtime.platform_tag \o ".whl"

\* a plausible slip: the C++ ABI flag is left out of the filename
_wheel_url_no_abi(release_tag, runtime) ==
    "https://github.com/" \o GITHUB_REPO \o "/releases/download/"
        \o Str(release_tag) \o "/"
        \o "flash_attn-" \o Str(LStrip(release_tag, "v")) \o "%2Bcu12torch"
        \o runtime.torch_major_minor \o "cxx11abi" \o "-"
        \o runtime.python_tag \o "-" \o runtime.python_tag \o "-"
        \o runtime.platform_tag \o ".whl"

_wheel_url(release_tag, runtime) ==
    LET version == Str(LStrip(release_tag, "v"))
        filename == "flash_attn-" \o version \o "%2Bcu12torch"
                    \o runtime.torch_major_minor
                    \o "cxx11abi" \o runtime.cxx11abi \o "-"
                    \o runtime.python_tag \o "-" \o runtime.python_tag \o "-"
                    \o runtime.platform_tag \o ".whl"
    IN "https://github.com/" \o GITHUB_REPO \o "/releases/download/"
           \o Str(release_tag) \o "/" \o filename

\* which: the answer of shutil.which("uv"), as a boolean
_install_cmd(installer, wheel_url, which) ==
    LET chosen == IF installer = "auto"
                  THEN (IF which THEN "uv" ELSE "pip")
                  ELSE installer
    IN IF chosen = "uv"
       THEN <<"uv", "pip", "install", "--force-reinstall", "--no-deps", wheel_url>>
       ELSE <<"sys.executable", "-m", "pip", "install", "--force-reinstall",
              "--no-deps", wheel_url>>

(***************************************************************************)
(* Installer: the environments and inputs explored.                        *)
(***************************************************************************)
TorchVersions ==
    { <<"2", ".">> \o Dec(m) \o <<".">> \o Dec(p) :
          m \in 4..MaxTorchMinor, p \in {1} }
    \cup { <<"2", ".", "4", ".", "1", "+", "c", "u", "1", "2", "1">>,
           <<"n", "i", "g", "h", "t", "l", "y">>,
           <<"2">> }

CudaVersions ==
    { <<>>, <<"1", "2", ".", "1">>, <<"1", "2", ".", "4">>,
      <<"1", "1", ".", "8">>, <<"1", "2">> }

SysPlatforms == { <<"l", "i", "n", "u", "x">>, <<"d", "a", "r", "w", "i", "n">> }

Machines == { <<"x", "8", "6", "_", "6", "4">>, <<"A", "M", "D", "6", "4">>,
              <<"a", "a", "r", "c", "h", "6", "4">>,
              <<"r", "i", "s", "c", "v", "6", "4">> }

Envs ==
    [torch_importable : BOOLEAN, torch_version : TorchVersions,
     torch_cuda : CudaVersions, py_major : {3}, py_minor : 10..MaxPyMinor,
     cxx11abi : BOOLEAN, sys_platform : SysPlatforms, machine : Machines]

\* every fingerprint _gather_runtime can return in the environments explored
RuntimeInfos == { _gather_runtime(e).rt : e \in { x \in Envs : _gather_runtime(x).ok } }

SuppliedTags == { <<"v", "2", ".", "8", ".", "3">>, <<"v", "2", ".", "7", ".", "4">> }
LatestTags == { <<"v", "2", ".", "8", ".", "3">>, <<"v", "2", ".", "9", ".", "0">> }


\* a plausible slip: the test for a missing tag_name is left out
_get_latest_release_tag_unchecked(resp) ==
    IF resp.transport # "ok"
    THEN [ok |-> FALSE, value |-> <<>>, exc |-> resp.transport]
    ELSE IF ~resp.json
    THEN [ok |-> FALSE, value |-> <<>>, exc |-> "JSONDecodeError"]
    ELSE [ok |-> TRUE, value |-> resp.tag_name, exc |-> ""]

\* resp: what the release index answers to the request of lines 83-88
_get_latest_release_tag(resp) ==
    IF resp.transport # "ok"
    THEN [ok |-> FALSE, value |-> <<>>, exc |-> resp.transport]
    ELSE IF ~resp.json
    THEN [ok |-> FALSE, value |-> <<>>, exc |-> "JSONDecodeError"]
    ELSE IF resp.tag_name = <<>>
    THEN [ok |-> FALSE, value |-> <<>>, exc |-> "RuntimeError"]
    ELSE [ok |-> TRUE, value |-> resp.tag_name, exc |-> ""]

IndexResponses ==
    [transport : {"ok", "URLError", "TimeoutError"}, json : BOOLEAN,
     tag_name : LatestTags \cup {<<>>}]

\* a plausible slip: the test on exc.code is inverted
_wheel_exists_inverted(code) ==
    IF code = "200" THEN [raised |-> "", value |-> TRUE]
    ELSE IF code = "URLError" THEN [raised |-> "URLError", value |-> FALSE]
    ELSE IF code # "404" THEN [raised |-> "", value |-> FALSE]
    ELSE [raised |-> "HTTPError", value |-> FALSE]

\* code: the answer to the HEAD request, an HTTP status or a transport error
_wheel_exists(code) ==
    IF code = "200" THEN [raised |-> "", value |-> TRUE]
    ELSE IF code = "URLError" THEN [raised |-> "URLError", value |-> FALSE]
    ELSE IF code = "404" THEN [raised |-> "", value |-> FALSE]
    ELSE [raised |-> "HTTPError", value |-> FALSE]

HeadAnswers == {"200", "404", "403", "500", "URLError"}

(***************************************************************************)
(* State.  The i_ variables are the Installer's run, the d_ variables the  *)
(* Inspector's run, the u_ variables the inputs and results of _wheel_url. *)
(***************************************************************************)
VARIABLES
    i_pc,           \* position in main: "gather", "resolve", "build", "verify",
                    \* "print_url", "install", "done"
    args,           \* the parsed command line
    env,            \* the environment _gather_runtime read
    runtime,        \* the RuntimeInfo of line 159
    release_tag,    \* the local of lines 161-171
    wheel_url,      \* the local of line 173
    i_stdout,       \* the notices printed so far, one tag per print call
    index_queried,  \* the answers received from the release index
    head_requests,  \* the answers received to HEAD requests on the wheel URL
    spawned,        \* the commands handed to subprocess.run
    i_raised,       \* the exception that left main, "" if none
    i_status,       \* the process exit status, meaningful when i_pc = "done"
    d_pc, d_stdout, imports, ok_torch, ok_flash, ok_ext, ext_msg, probes,
    d_raised, d_status,
    u_pc, u_tag, u_a, u_b, u_url_a, u_url_b

i_vars == <<i_pc, args, env, runtime, release_tag, wheel_url, i_stdout,
            index_queried, head_requests, spawned, i_raised, i_status>>
d_vars == <<d_pc, d_stdout, imports, ok_torch, ok_flash, ok_ext, ext_msg,
            probes, d_raised, d_status>>
u_vars == <<u_pc, u_tag, u_a, u_b, u_url_a, u_url_b>>
vars == <<i_vars, d_vars, u_vars>>

\* env before _gather_runtime has read anything
NoEnv ==
    [torch_importable |-> FALSE, torch_version |-> <<>>, torch_cuda |-> <<>>,
     py_major |-> 0, py_minor |-> 0, cxx11abi |-> FALSE, sys_platform |-> <<>>,
     machine |-> <<>>]

Args == [release_tag : SuppliedTags \cup {None}, print_url : BOOLEAN,
         installer : {"auto", "uv", "pip"}]

InstallerIdle ==
    /\ i_pc = "idle" /\ args = [release_tag |-> None, print_url |-> FALSE,
                                installer |-> "auto"]
    /\ env = NoEnv
    /\ runtime = NoRuntime /\ release_tag = None /\ wheel_url = ""
    /\ i_stdout = <<>> /\ index_queried = <<>> /\ head_requests = <<>>
    /\ spawned = <<>> /\ i_raised = "" /\ i_status = 0

InspectorIdle ==
    /\ d_pc = "idle" /\ d_stdout = <<>> /\ imports = <<>>
    /\ ok_torch = FALSE /\ ok_flash = FALSE /\ ok_ext = FALSE
    /\ ext_msg = <<>> /\ probes = <<>> /\ d_raised = "" /\ d_status = 0

WheelUrlIdle ==
    /\ u_pc = "idle" /\ u_tag = <<>> /\ u_a = NoRuntime /\ u_b = NoRuntime
    /\ u_url_a = "" /\ u_url_b = ""

(***************************************************************************)
(* Installer: main, one action per stage of the pipeline.                  *)
(***************************************************************************)
\* line 158: the state after _parse_args
InitInstaller ==
    /\ i_pc = "gather" /\ args \in Args
    /\ env = NoEnv
    /\ runtime = NoRuntime /\ release_tag = None /\ wheel_url = ""
    /\ i_stdout = <<>> /\ index_queried = <<>> /\ head_requests = <<>>
    /\ spawned = <<>> /\ i_raised = "" /\ i_status = 0
    /\ InspectorIdle /\ WheelUrlIdle

\* line 159: a RuntimeError of _gather_runtime leaves main uncaught
GatherRuntime ==
    /\ i_pc = "gather"
    /\ \E e \in Envs :
          LET g == _gather_runtime(e)
          IN /\ env' = e
             /\ IF g.ok
                THEN /\ runtime' = g.rt /\ i_pc' = "resolve"
                     /\ UNCHANGED <<i_raised, i_status>>
                ELSE /\ i_raised' = "RuntimeError" /\ i_status' = 1
                     /\ i_pc' = "done" /\ UNCHANGED runtime
    /\ UNCHANGED <<args, release_tag, wheel_url, i_stdout, index_queried,
                   head_requests, spawned, d_vars, u_vars>>

\* lines 161-171
ResolveReleaseTag ==
    /\ i_pc = "resolve"
    /\ IF args.release_tag # None
       THEN /\ release_tag' = args.release_tag
            /\ UNCHANGED <<index_queried, i_stdout>>
       ELSE \E resp \in IndexResponses :
               LET r == _get_latest_release_tag(resp)
               IN /\ index_queried' = Append(index_queried, resp)
                  /\ IF r.ok
                     THEN /\ release_tag' = r.value
                          /\ i_stdout' = Append(i_stdout, "Using latest release tag")
                     ELSE /\ release_tag' = DEFAULT_RELEASE_TAG
                          /\ i_stdout' = Append(i_stdout, "Could not resolve latest release tag")
    /\ i_pc' = "build"
    /\ UNCHANGED <<args, env, runtime, wheel_url, head_requests, spawned, i_raised,
                   i_status, d_vars, u_vars>>

\* lines 173-175
BuildUrl ==
    /\ i_pc = "build"
    /\ wheel_url' = _wheel_url(release_tag, runtime)
    /\ i_stdout' = i_stdout \o <<"torch= cuda= python=", "Resolved wheel">>
    /\ i_pc' = "verify"
    /\ UNCHANGED <<args, env, runtime, release_tag, index_queried, head_requests,
                   spawned, i_raised, i_status, d_vars, u_vars>>

\* lines 177-183
VerifyExists ==
    /\ i_pc = "verify"
    /\ \E code \in HeadAnswers :
          LET e == _wheel_exists(code)
          IN /\ head_requests' = Append(head_requests, code)
             /\ IF e.raised # ""
                THEN /\ i_raised' = e.raised /\ i_status' = 1 /\ i_pc' = "done"
                     /\ UNCHANGED i_stdout
                ELSE IF ~e.value
                THEN /\ i_stdout' = i_stdout \o <<"No matching prebuilt wheel found",
                                                  "Try a different --release-tag">>
                     /\ i_status' = 2 /\ i_pc' = "done" /\ UNCHANGED i_raised
                ELSE /\ i_pc' = "print_url"
                     /\ UNCHANGED <<i_stdout, i_raised, i_status>>
    /\ UNCHANGED <<args, env, runtime, release_tag, wheel_url, index_queried,
                   spawned, d_vars, u_vars>>

\* a plausible slip: the --print-url test is dropped
PrintUrlIgnored ==
    /\ i_pc = "print_url"
    /\ i_pc' = "install"
    /\ UNCHANGED <<args, env, runtime, release_tag, wheel_url, i_stdout,
                   index_queried, head_requests, spawned, i_raised, i_status,
                   d_vars, u_vars>>

\* lines 185-186
PrintUrl ==
    /\ i_pc = "print_url"
    /\ IF args.print_url
       THEN i_status' = 0 /\ i_pc' = "done"
       ELSE i_pc' = "install" /\ UNCHANGED i_status
    /\ UNCHANGED <<args, env, runtime, release_tag, wheel_url, i_stdout,
                   index_queried, head_requests, spawned, i_raised, d_vars,
                   u_vars>>

\* lines 188-191; subprocess.run raises FileNotFoundError when the program
\* named by the command is not on the execution path
Install ==
    /\ i_pc = "install"
    /\ \E which \in BOOLEAN, rc \in 0..MaxReturnCode :
          LET cmd == _install_cmd(args.installer, wheel_url, which)
          IN /\ i_stdout' = Append(i_stdout, "Installing via")
             /\ spawned' = Append(spawned, cmd)
             /\ IF cmd[1] = "uv" /\ ~which
                THEN i_raised' = "FileNotFoundError" /\ i_status' = 1
                ELSE i_status' = rc /\ UNCHANGED i_raised
    /\ i_pc' = "done"
    /\ UNCHANGED <<args, env, runtime, release_tag, wheel_url, index_queried,
                   head_requests, d_vars, u_vars>>

NextInstaller ==
    \/ GatherRuntime
    \/ ResolveReleaseTag
    \/ BuildUrl
    \/ VerifyExists
    \/ PrintUrl
    \/ Install

SpecInstaller == InitInstaller /\ [][NextInstaller]_vars


(***************************************************************************)
(* Inspector: helpers.                                                     *)
(***************************************************************************)
IsSpace(c) == c \in {" ", "\n", "\t", "\r"}

\* s.strip()
RECURSIVE Strip(_)
Strip(s) == IF s = <<>> THEN s
            ELSE IF IsSpace(Head(s)) THEN Strip(Tail(s))
            ELSE IF IsSpace(s[Len(s)]) THEN Strip(SubSeq(s, 1, Len(s) - 1))
            ELSE s

\* s.splitlines(), for the line boundary "\n": no line for an empty string,
\* and none after a final line boundary
RECURSIVE SplitLines(_)
SplitLines(s) ==
    IF s = <<>> THEN <<>>
    ELSE IF \E i \in 1..Len(s) : s[i] = "\n"
    THEN LET i == CHOOSE k \in 1..Len(s) :
                      s[k] = "\n" /\ \A j \in 1..(k - 1) : s[j] # "\n"
         IN <<SubSeq(s, 1, i - 1)>> \o SplitLines(SubSeq(s, i + 1, Len(s)))
    ELSE <<s>>

\* outcome: what importlib.import_module does, [ok, msg]
_try_import(outcome) ==
    IF outcome.ok THEN [ok |-> TRUE, exc |-> <<>>]
    ELSE [ok |-> FALSE, exc |-> outcome.msg]

\* result: what subprocess.check_output does with the command,
\* [raised, out]: the exception type it raises ("" if none) and either the
\* captured output or the exception's message
_cmd_output(result) ==
    IF result.raised = <<>>
    THEN Strip(result.out)
    ELSE <<"<", "u", "n", "a", "v", "a", "i", "l", "a", "b", "l", "e", ":", " ">>
             \o result.raised \o <<":", " ">> \o result.out \o <<">">>

\* the strings of length at most n over the characters of cs
RECURSIVE StringsUpTo(_, _)
StringsUpTo(cs, n) ==
    IF n = 0 THEN {<<>>}
    ELSE LET shorter == StringsUpTo(cs, n - 1)
         IN shorter \cup { Append(t, c) : t \in shorter, c \in cs }

CmdResults ==
    [raised : {<<>>}, out : StringsUpTo({"x", " ", "\n"}, MaxOutLen)]
    \cup [raised : {<<"F", "i", "l", "e", "N", "o", "t", "F", "o", "u", "n",
                      "d", "E", "r", "r", "o", "r">>},
          out : {<<"N", "o", " ", "s", "u", "c", "h", " ", "f", "i", "l", "e">>}]
    \cup [raised : {<<"C", "a", "l", "l", "e", "d", "P", "r", "o", "c", "e",
                      "s", "s", "E", "r", "r", "o", "r">>},
          out : {<<"e", "x", "i", "t", " ", "s", "t", "a", "t", "u", "s", " ", "1">>,
                 <<>>}]

ImportOutcomes ==
    [ok : {TRUE}, msg : {<<>>}]
    \cup [ok : {FALSE},
          msg : {<<"l", "i", "b", ".", "s", "o", ":", " ", "u", "n", "d", "e",
                   "f", "i", "n", "e", "d", " ", "s", "y", "m", "b", "o", "l",
                   ":", " ", "f">>,
                 <<"N", "o", " ", "m", "o", "d", "u", "l", "e", " ", "n", "a",
                   "m", "e", "d", " ", "x">>,
                 <<"u", "n", "d", "e", "f", "i", "n", "e", "d", " ", "s", "y",
                   "m", "b", "o">>}]

(***************************************************************************)
(* Inspector: main, one action per probe and per import.                   *)
(***************************************************************************)
InitInspector ==
    /\ d_pc = "nvcc" /\ d_stdout = <<>> /\ imports = <<>>
    /\ ok_torch = FALSE /\ ok_flash = FALSE /\ ok_ext = FALSE
    /\ ext_msg = <<>> /\ probes = <<>> /\ d_raised = "" /\ d_status = 0
    /\ InstallerIdle /\ WheelUrlIdle

\* lines 30-34: splitlines()[-1] raises IndexError on an empty list, and
\* the exception leaves _print_runtime and main uncaught
PrintRuntimeNvcc ==
    /\ d_pc = "nvcc"
    /\ \E result \in CmdResults :
          LET lines == SplitLines(_cmd_output(result))
          IN /\ probes' = Append(probes, result)
             /\ IF lines = <<>>
                THEN /\ d_stdout' = d_stdout \o <<"python", "executable",
                                                  "platform", "CUDA_HOME">>
                     /\ d_raised' = "IndexError" /\ d_status' = 1
                     /\ d_pc' = "done"
                ELSE /\ d_stdout' = d_stdout \o <<"python", "executable",
                                                  "platform", "CUDA_HOME", "nvcc">>
                     /\ d_pc' = "nvidia-smi"
                     /\ UNCHANGED <<d_raised, d_status>>
    /\ UNCHANGED <<imports, ok_torch, ok_flash, ok_ext, ext_msg, i_vars, u_vars>>

\* line 35: splitlines()[0] raises IndexError on an empty list
PrintRuntimeSmi ==
    /\ d_pc = "nvidia-smi"
    /\ \E result \in CmdResults :
          LET lines == SplitLines(_cmd_output(result))
          IN /\ probes' = Append(probes, result)
             /\ IF lines = <<>>
                THEN /\ d_raised' = "IndexError" /\ d_status' = 1
                     /\ d_pc' = "done" /\ UNCHANGED d_stdout
                ELSE /\ d_stdout' = Append(d_stdout, "nvidia-smi")
                     /\ d_pc' = "torch"
                     /\ UNCHANGED <<d_raised, d_status>>
    /\ UNCHANGED <<imports, ok_torch, ok_flash, ok_ext, ext_msg, i_vars, u_vars>>

\* a plausible slip: the return after the failed torch import is missing
ImportTorchNoReturn ==
    /\ d_pc = "torch"
    /\ \E outcome \in ImportOutcomes :
          LET r == _try_import(outcome)
          IN /\ imports' = Append(imports, "torch")
             /\ ok_torch' = r.ok
             /\ d_pc' = "flash_attn"
             /\ d_stdout' = IF r.ok
                            THEN d_stdout \o <<"torch", "torch.version.cuda",
                                               "torch.cuda.is_available">>
                            ELSE Append(d_stdout, "torch import failed")
             /\ UNCHANGED d_status
    /\ UNCHANGED <<ok_flash, ok_ext, ext_msg, probes, d_raised, i_vars, u_vars>>

\* lines 41-48
ImportTorch ==
    /\ d_pc = "torch"
    /\ \E outcome \in ImportOutcomes :
          LET r == _try_import(outcome)
          IN /\ imports' = Append(imports, "torch")
             /\ ok_torch' = r.ok
             /\ IF ~r.ok
                THEN /\ d_stdout' = Append(d_stdout, "torch import failed")
                     /\ d_status' = 1 /\ d_pc' = "done"
                ELSE /\ d_stdout' = d_stdout \o <<"torch", "torch.version.cuda",
                                                  "torch.cuda.is_available">>
                     /\ d_pc' = "flash_attn" /\ UNCHANGED d_status
    /\ UNCHANGED <<ok_flash, ok_ext, ext_msg, probes, d_raised, i_vars, u_vars>>

\* lines 50-56
ImportFlashAttn ==
    /\ d_pc = "flash_attn"
    /\ \E outcome \in ImportOutcomes :
          LET r == _try_import(outcome)
          IN /\ imports' = Append(imports, "flash_attn")
             /\ ok_flash' = r.ok
             /\ IF ~r.ok
                THEN /\ d_stdout' = d_stdout \o <<"flash_attn import failed",
                                                  "Diagnosis: flash-attn is missing or not loadable">>
                     /\ d_status' = 2 /\ d_pc' = "done"
                ELSE /\ d_stdout' = Append(d_stdout, "flash_attn")
                     /\ d_pc' = "flash_attn_2_cuda" /\ UNCHANGED d_status
    /\ UNCHANGED <<ok_torch, ok_ext, ext_msg, probes, d_raised, i_vars, u_vars>>

\* a plausible slip: the diagnosis is printed for every failure
ImportExtensionAlwaysDiagnosed ==
    /\ d_pc = "flash_attn_2_cuda"
    /\ \E outcome \in ImportOutcomes :
          LET r == _try_import(outcome)
          IN /\ imports' = Append(imports, "flash_attn_2_cuda")
             /\ ok_ext' = r.ok
             /\ ext_msg' = r.exc
             /\ IF ~r.ok
                THEN /\ d_stdout' = d_stdout \o
                            <<"flash_attn_2_cuda import failed",
                              "Diagnosis: ABI mismatch", "Fix: reinstall flash-attn",
                              "Command: uv run python scripts/install_prebuilt_flash_attn.py">>
                     /\ d_status' = 3
                ELSE /\ d_stdout' = d_stdout \o
                            <<"flash_attn_2_cuda import succeeded.",
                              "flash-attn looks ABI-compatible">>
                     /\ d_status' = 0
    /\ d_pc' = "done"
    /\ UNCHANGED <<ok_torch, ok_flash, probes, d_raised, i_vars, u_vars>>

\* lines 58-73
ImportExtension ==
    /\ d_pc = "flash_attn_2_cuda"
    /\ \E outcome \in ImportOutcomes :
          LET r == _try_import(outcome)
          IN /\ imports' = Append(imports, "flash_attn_2_cuda")
             /\ ok_ext' = r.ok
             /\ ext_msg' = r.exc
             /\ IF ~r.ok
                THEN /\ d_stdout' = d_stdout \o
                            <<"flash_attn_2_cuda import failed">> \o
                            (IF Contains(r.exc, <<"u", "n", "d", "e", "f", "i",
                                                  "n", "e", "d", " ", "s", "y",
                                                  "m", "b", "o", "l">>)
                             THEN <<"Diagnosis: ABI mismatch",
                                    "Fix: reinstall flash-attn",
                                    "Command: uv run python scripts/install_prebuilt_flash_attn.py">>
                             ELSE <<>>)
                     /\ d_status' = 3
                ELSE /\ d_stdout' = d_stdout \o
                            <<"flash_attn_2_cuda import succeeded.",
                              "flash-attn looks ABI-compatible">>
                     /\ d_status' = 0
    /\ d_pc' = "done"
    /\ UNCHANGED <<ok_torch, ok_flash, probes, d_raised, i_vars, u_vars>>

NextInspector ==
    \/ PrintRuntimeNvcc
    \/ PrintRuntimeSmi
    \/ ImportTorch
    \/ ImportFlashAttn
    \/ ImportExtension

SpecInspector == InitInspector /\ [][NextInspector]_vars

(***************************************************************************)
(* _wheel_url applied to a release tag and two fingerprints.               *)
(***************************************************************************)
UrlTags == SuppliedTags \cup LatestTags \cup {<<"2", ".", "8", ".", "3">>}

InitWheelUrl ==
    /\ u_pc = "inputs" /\ u_tag \in UrlTags
    /\ u_a \in RuntimeInfos /\ u_b \in RuntimeInfos
    /\ u_url_a = "" /\ u_url_b = ""
    /\ InstallerIdle /\ InspectorIdle

ApplyWheelUrl ==
    /\ u_pc = "inputs"
    /\ u_url_a' = _wheel_url(u_tag, u_a)
    /\ u_url_b' = _wheel_url(u_tag, u_b)
    /\ u_pc' = "built"
    /\ UNCHANGED <<u_tag, u_a, u_b, i_vars, d_vars>>

NextWheelUrl == ApplyWheelUrl

SpecWheelUrl == InitWheelUrl /\ [][NextWheelUrl]_vars


(***************************************************************************)
(* Properties of _wheel_url (SpecWheelUrl).                                *)
(***************************************************************************)
C1_Inputs ==
    /\ u_pc = "built"
    /\ u_tag = <<"v", "2", ".", "8", ".", "3">>
    /\ u_a.torch_major_minor = "2.4" /\ u_a.torch_cuda = "12.1"
    /\ u_a.python_tag = "cp310" /\ u_a.cxx11abi = "TRUE"
    /\ u_a.platform_tag = "linux_x86_64"

\* C1, as stated: for release tag v2.8.3 and the fingerprint (2.4, 12.1,
\* cp310, TRUE, linux_x86_64) the URL's filename carries the toolkit's
\* major.minor version, "cu12.1".
C1_UrlEmbedsCudaMinor ==
    C1_Inputs =>
        u_url_a = "https://github.com/Dao-AILab/flash-attention/releases/download/v2.8.3/flash_attn-2.8.3%2Bcu12.1torch2.4cxx11abiTRUE-cp310-cp310-linux_x86_64.whl"

\* C1, amended: for the same inputs the URL's filename carries the fixed
\* toolkit family "cu12", whatever the toolkit's minor version is.
C1_UrlEmbedsCu12 ==
    C1_Inputs =>
        u_url_a = "https://github.com/Dao-AILab/flash-attention/releases/download/v2.8.3/flash_attn-2.8.3%2Bcu12torch2.4cxx11abiTRUE-cp310-cp310-linux_x86_64.whl"

C1_Witness ==
    /\ C1_Inputs
    /\ u_url_a = "https://github.com/Dao-AILab/flash-attention/releases/download/v2.8.3/flash_attn-2.8.3%2Bcu12torch2.4cxx11abiTRUE-cp310-cp310-linux_x86_64.whl"

\* C2, as stated: for a fixed release tag, two fingerprints that differ in
\* any field (torch_version and torch_cuda included) have different URLs.
C2_InjectiveInAllFields ==
    (u_pc = "built" /\ u_a # u_b) => u_url_a # u_url_b

SameUrlFields(a, b) ==
    /\ a.torch_major_minor = b.torch_major_minor
    /\ a.python_tag = b.python_tag
    /\ a.cxx11abi = b.cxx11abi
    /\ a.platform_tag = b.platform_tag

\* C2, amended: for a fixed release tag, two fingerprints returned by
\* _gather_runtime have the same URL exactly when they agree on
\* torch_major_minor, python_tag, cxx11abi and platform_tag; torch_version
\* and torch_cuda do not reach the URL.
C2_InjectiveInUrlFields ==
    u_pc = "built" => (u_url_a = u_url_b <=> SameUrlFields(u_a, u_b))

C2_Witness ==
    /\ u_pc = "built"
    /\ u_a.cxx11abi # u_b.cxx11abi
    /\ [u_a EXCEPT !.cxx11abi = u_b.cxx11abi] = u_b
    /\ u_url_a # u_url_b

(***************************************************************************)
(* Properties of the Installer (SpecInstaller).                            *)
(***************************************************************************)
\* C3: once the HEAD request on the wheel URL is answered 404, the run has
\* ended with status 2, no exception, and no installer command was spawned,
\* whatever the command line is.
C3_NotFoundExits2 ==
    (head_requests # <<>> /\ head_requests[Len(head_requests)] = "404") =>
        /\ i_pc = "done" /\ i_status = 2 /\ i_raised = ""
        /\ spawned = <<>>

C3_Witness ==
    /\ head_requests = <<"404">> /\ i_pc = "done" /\ i_status = 2
    /\ ~args.print_url /\ args.installer = "uv" /\ args.release_tag # None

\* C4: with --print-url no installer command is ever spawned; a run whose
\* HEAD request was answered 200 ends with status 0; and a run that ended
\* with status 0 resolved a release tag, built the URL and verified it.
C4_PrintUrlSkipsInstall ==
    args.print_url =>
        /\ spawned = <<>> /\ i_pc # "install"
        /\ (i_pc = "done" /\ head_requests = <<"200">>) =>
               (i_status = 0 /\ i_raised = "")
        /\ (i_pc = "done" /\ i_status = 0 /\ i_raised = "") =>
               /\ runtime # NoRuntime /\ release_tag # None
               /\ (args.release_tag = None => Len(index_queried) = 1)
               /\ wheel_url = _wheel_url(release_tag, runtime)
               /\ head_requests = <<"200">>

C4_Witness ==
    /\ args.print_url /\ args.installer = "pip" /\ i_pc = "done"
    /\ head_requests = <<"200">> /\ i_status = 0 /\ spawned = <<>>

\* the release-index request failed: transport error, timeout, a body that
\* is not JSON, or no tag field
QueryFailed(resp) ==
    resp.transport # "ok" \/ ~resp.json \/ resp.tag_name = <<>>

TagResolved ==
    runtime # NoRuntime /\ i_pc \in {"build", "verify", "print_url", "install", "done"}

\* C5: without --release-tag the index is queried once, and if the query
\* failed the tag (and the URL built from it) is the default v2.8.3 and the
\* fallback notice is printed; with --release-tag the tag is the one
\* supplied and the index is not queried.
C5_FallbackToDefaultTag ==
    TagResolved =>
        IF args.release_tag = None
        THEN /\ Len(index_queried) = 1
             /\ QueryFailed(index_queried[1]) =>
                   /\ release_tag = <<"v", "2", ".", "8", ".", "3">>
                   /\ \E k \in 1..Len(i_stdout) :
                          i_stdout[k] = "Could not resolve latest release tag"
                   /\ wheel_url \in {"", _wheel_url(<<"v", "2", ".", "8", ".", "3">>, runtime)}
        ELSE /\ release_tag = args.release_tag
             /\ index_queried = <<>>

C5_Witness ==
    /\ TagResolved /\ args.release_tag = None /\ wheel_url # ""
    /\ index_queried[1].transport = "ok" /\ index_queried[1].json
    /\ index_queried[1].tag_name = <<>>
    /\ release_tag = DEFAULT_RELEASE_TAG

\* the environment is one the Installer does not support
EnvUnsupported(e) ==
    \/ ~e.torch_importable
    \/ ~_parse_torch_major_minor(e.torch_version).ok
    \/ e.torch_cuda = <<>>
    \/ LeadingDigits(e.torch_cuda) # <<"1", "2">>
    \/ SubSeq(e.sys_platform, 1, 5) # <<"l", "i", "n", "u", "x">>
    \/ Lower(e.machine) \notin {<<"x", "8", "6", "_", "6", "4">>,
                               <<"a", "m", "d", "6", "4">>,
                               <<"a", "a", "r", "c", "h", "6", "4">>,
                               <<"a", "r", "m", "6", "4">>}

\* C6: when the environment read by _gather_runtime is unsupported, the run
\* has ended with a RuntimeError and the release index was not queried, no
\* URL was built, no HEAD request was sent and no installer was spawned.
C6_GatherFailureBeforeNetwork ==
    (i_pc \notin {"idle", "gather"} /\ EnvUnsupported(env)) =>
        /\ i_pc = "done" /\ i_raised = "RuntimeError" /\ i_status # 0
        /\ index_queried = <<>> /\ wheel_url = "" /\ head_requests = <<>>
        /\ spawned = <<>>

C6_Witness ==
    /\ i_pc = "done" /\ i_raised = "RuntimeError"
    /\ env.torch_importable /\ env.torch_cuda = <<"1", "1", ".", "8">>
    /\ _parse_torch_major_minor(env.torch_version).ok
    /\ env.sys_platform = <<"l", "i", "n", "u", "x">>
    /\ env.machine = <<"x", "8", "6", "_", "6", "4">>

(***************************************************************************)
(* Properties of the Inspector (SpecInspector).                            *)
(***************************************************************************)
Attempted(m) == \E k \in 1..Len(imports) : imports[k] = m

\* C7: every run of the Inspector ends by main returning a status in 0..3:
\* 1 exactly when the torch import failed, 2 exactly when torch loaded and
\* flash_attn failed, 3 exactly when both loaded and flash_attn_2_cuda
\* failed, 0 exactly when all three loaded.
C7_ExitTaxonomy ==
    d_pc = "done" =>
        /\ d_raised = ""
        /\ d_status \in 0..3
        /\ d_status = 1 <=> (Attempted("torch") /\ ~ok_torch)
        /\ d_status = 2 <=> (ok_torch /\ Attempted("flash_attn") /\ ~ok_flash)
        /\ d_status = 3 <=> (ok_torch /\ ok_flash
                             /\ Attempted("flash_attn_2_cuda") /\ ~ok_ext)
        /\ d_status = 0 <=> (ok_torch /\ ok_flash /\ ok_ext)

\* C8: after a failed torch import the run has ended with status 1 and no
\* other import was attempted; flash_attn_2_cuda is imported only after
\* torch and flash_attn were imported with success.
C8_TorchFailureStopsProbes ==
    /\ (Attempted("torch") /\ ~ok_torch) =>
           (d_pc = "done" /\ d_status = 1 /\ imports = <<"torch">>)
    /\ Attempted("flash_attn") => (imports[1] = "torch" /\ ok_torch)
    /\ Attempted("flash_attn_2_cuda") =>
           /\ imports = <<"torch", "flash_attn", "flash_attn_2_cuda">>
           /\ ok_torch /\ ok_flash

C8_Witness ==
    /\ d_pc = "done" /\ imports = <<"torch">> /\ ~ok_torch /\ d_status = 1
    /\ Len(probes) = 2

Printed(line) == \E k \in 1..Len(d_stdout) : d_stdout[k] = line

\* C9: after a failed flash_attn_2_cuda import the run has ended with
\* status 3, and the ABI-mismatch diagnosis and the remediation command
\* are printed exactly when the exception message contains
\* "undefined symbol".
C9_ExtensionFailureDiagnosis ==
    (Attempted("flash_attn_2_cuda") /\ ~ok_ext) =>
        /\ d_pc = "done" /\ d_status = 3 /\ d_raised = ""
        /\ Printed("Diagnosis: ABI mismatch") <=>
               Contains(ext_msg, <<"u", "n", "d", "e", "f", "i", "n", "e", "d",
                                   " ", "s", "y", "m", "b", "o", "l">>)
        /\ Printed("Command: uv run python scripts/install_prebuilt_flash_attn.py")
               <=> Printed("Diagnosis: ABI mismatch")

C9_Witness ==
    /\ d_pc = "done" /\ d_status = 3 /\ ~ok_ext
    /\ Attempted("flash_attn_2_cuda")
    /\ ext_msg = <<"l", "i", "b", ".", "s", "o", ":", " ", "u", "n", "d", "e",
                   "f", "i", "n", "e", "d", " ", "s", "y", "m", "b", "o", "l",
                   ":", " ", "f">>
    /\ Printed("Diagnosis: ABI mismatch")
    /\ Printed("Command: uv run python scripts/install_prebuilt_flash_attn.py")

\* C10: whatever the two probe commands do, _print_runtime returns after
\* printing one line per probe, main reaches the torch import, and the
\* exit status is the one the imports decide.
C10_ProbesNeverAbort ==
    /\ d_raised = ""
    /\ Len(probes) >= 1 => Printed("nvcc")
    /\ Len(probes) >= 2 => Printed("nvidia-smi")
    /\ d_pc = "done" =>
           /\ Len(probes) = 2 /\ Attempted("torch")
           /\ d_status = IF ~ok_torch THEN 1
                         ELSE IF ~ok_flash THEN 2
                         ELSE IF ~ok_ext THEN 3 ELSE 0

====
